---- MODULE Spec2Model ----
(***************************************************************************)
(* Scene lifecycle manager (scene/__init__.py) and light-transport         *)
(* training driver (train_test.py).                                        *)
(*                                                                         *)
(* Raw views are numbered: the dataset reader returns the train views      *)
(* 1..nTrain followed by the test views nTrain+1..nTrain+nTest.            *)
(* Resolution scales 1.0 and 2.0 are written 1 and 2.  A Python optional   *)
(* is the empty sequence (None) or a one-element sequence.                 *)
(***************************************************************************)
EXTENDS Integers, Sequences, FiniteSets, TLC

VARIABLES
    fs,               \* files: source markers, cameras.json, input.ply, snapshots
    dataset,          \* what the dataset reader returns for the source path
    scene_params,     \* keyword parameters of the Scene class bound by `import`
    scene,            \* the Scene object bound by the latest successful construction
    ctor,             \* trace of the latest execution of Scene.__init__
    nCtor,            \* number of executions of Scene.__init__ so far
    lookup,           \* outcome of the latest getTrainCameras / getTestCameras / save
    cfg,              \* arguments of training()
    pc,               \* position of training()
    first_iter,
    iteration,
    viewpoint_stack,
    viewpoint_cam,
    lossFinite,       \* whether the loss of the current iteration is finite
    it,               \* what the current iteration has done so far
    hist,             \* what the run has done so far
    new_scene         \* the Scene bound at train_test.py:174/176

sceneVars == <<fs, dataset, scene_params, scene, ctor, nCtor, lookup>>
driverVars == <<cfg, pc, first_iter, iteration, viewpoint_stack, viewpoint_cam,
                lossFinite, it, hist, new_scene>>
vars == <<fs, dataset, scene_params, scene, ctor, nCtor, lookup,
          cfg, pc, first_iter, iteration, viewpoint_stack, viewpoint_cam,
          lossFinite, it, hist, new_scene>>

----------------------------------------------------------------------------
(* Bounds of the model *)

MaxTrain == 2
MaxTest == 2
MaxSteps == 4

----------------------------------------------------------------------------
(* Python values *)

None == <<>>
Some(x) == <<x>>

\* Truth value of an optional integer: None and 0 are false.
Truthy(o) == o # None /\ o[1] # 0

Range(s) == {s[i] : i \in 1..Len(s)}

\* Every order random.shuffle can leave the list s in.
Shuffles(s) == {[i \in 1..Len(s) |-> s[p[i]]] : p \in Permutations(1..Len(s))}

FromTo(a, b) == [i \in 1..(b - a + 1) |-> a + i - 1]

----------------------------------------------------------------------------
(* Scene.__init__ *)

\* Parameters Scene.__init__ declares besides args and gaussians.
SceneParams ==
    {"load_iteration", "shuffle", "resolution_scale", "resolution_scales",
     "model_path", "source_path", "data_type", "num_pts", "radius",
     "white_bg", "light_type", "load_pts"}

\* A call binds iff every keyword it passes is a declared parameter.
Binds(kw, params) == kw \subseteq params

\* loaded_iter after lines 51-60; max_iteration is searchForMaxIteration's result.
LoadedIter(load_iteration, max_iteration) ==
    IF Truthy(load_iteration)
    THEN IF load_iteration = Some(-1) THEN Some(max_iteration) ELSE load_iteration
    ELSE None

Dispatch_independentIfs(sparse, transforms, data_type) ==
    (IF sparse THEN <<"Colmap">> ELSE <<>>)
    \o (IF transforms THEN <<"Blender">> ELSE <<>>)
    \o (IF ~sparse /\ ~transforms /\ data_type = "OpenIllumination"
        THEN <<"OpenIllumination">> ELSE <<>>)

Dispatch_ignoresDataType(sparse, transforms, data_type) ==
    IF sparse THEN <<"Colmap">>
    ELSE IF transforms THEN <<"Blender">>
    ELSE <<"OpenIllumination">>

\* The readers lines 65-88 invoke, in order; none means `assert False`.
Dispatch(sparse, transforms, data_type) ==
    IF sparse THEN <<"Colmap">>
    ELSE IF transforms THEN <<"Blender">>
    ELSE IF data_type = "OpenIllumination" THEN <<"OpenIllumination">>
    ELSE <<>>

\* camlist of lines 97-102: train views, then test views.
CamList(train_cameras, test_cameras) ==
    (IF train_cameras # <<>> THEN train_cameras ELSE <<>>)
    \o (IF test_cameras # <<>> THEN test_cameras ELSE <<>>)

\* json_cams of lines 106-107: enumerate gives zero-based ids.
JsonCams(camlist) == [j \in 1..Len(camlist) |-> [id |-> j - 1, view |-> camlist[j]]]

SceneInfoAtMetadataWrite_afterShuffle(reader_order, shuffled_order) == shuffled_order

\* Lines 94-109 run before the shuffle of lines 111-113: the metadata is
\* written from the lists as the reader returned them.
SceneInfoAtMetadataWrite(reader_order, shuffled_order) == reader_order

\* utils.camera_utils.cameraList_from_camInfos: one camera per raw view,
\* in the order of the list it is given.
cameraList_from_camInfos(cam_infos, resolution_scale) ==
    [i \in 1..Len(cam_infos) |-> [view |-> cam_infos[i], scale |-> resolution_scale]]

Reverse(s) == [i \in 1..Len(s) |-> s[Len(s) + 1 - i]]

CamerasByScale_reshufflePerScale(cam_infos, resolution_scales) ==
    [s \in Range(resolution_scales) |->
        cameraList_from_camInfos(
            IF s = resolution_scales[1] THEN cam_infos ELSE Reverse(cam_infos), s)]

\* The dict lines 118-122 fill: every requested scale materialized from the
\* same, already shuffled, list.
CamerasByScale(cam_infos, resolution_scales) ==
    [s \in Range(resolution_scales) |-> cameraList_from_camInfos(cam_infos, s)]

Populate_overrideFallsThrough(load_pts, loaded_iter) ==
    (IF load_pts # None THEN <<"create_from_pcd(load_pts)">> ELSE <<>>)
    \o (IF Truthy(loaded_iter) THEN <<"load_ply">>
        ELSE <<"create_from_pcd(scene_info)">>)

\* Lines 124-141: the operations that populate the radiance model.
Populate(load_pts, loaded_iter) ==
    IF load_pts # None THEN <<"create_from_pcd(load_pts)">>
    ELSE IF Truthy(loaded_iter) THEN <<"load_ply">>
    ELSE <<"create_from_pcd(scene_info)">>

NoScene ==
    [exists |-> FALSE, loaded_iter |-> None, train_cameras |-> <<>>,
     test_cameras |-> <<>>]

PastDispatch_effectsFirst(readers) == TRUE

\* Whether the construction gets to lines 90-141 (metadata write, shuffle,
\* camera materialization, population): they follow the dispatch of lines
\* 65-88, whose `assert False` leaves __init__ when no reader was chosen.
PastDispatch(readers) == readers # <<>>

FirstConstruction_whenLoaded(loaded_iter) == Truthy(loaded_iter)

\* `if not self.loaded_iter:` (line 94): the construction copies the point
\* cloud and writes cameras.json unless it loads a checkpoint iteration.
FirstConstruction(loaded_iter) == ~Truthy(loaded_iter)

\* One execution of Scene(...) with keyword arguments a; max_iteration is
\* what searchForMaxIteration returns, shTrain and shTest are the orders
\* random.shuffle leaves the two lists in.
Scene__init__(a, params, files, max_iteration, ds, shTrain, shTest) ==
    LET loaded_iter == LoadedIter(a.load_iteration, max_iteration)
        readers == Dispatch(files.sparse, files.transforms, a.data_type)
        train == IF a.shuffle THEN shTrain ELSE ds.train
        test == IF a.shuffle THEN shTest ELSE ds.test
        first == FirstConstruction(loaded_iter)
        failed(err) ==
            [raised |-> err, args |-> a, readers |-> <<>>, wrote |-> FALSE,
             cameras_json |-> files.cameras_json, populate |-> <<>>,
             materialized |-> {}, scene |-> NoScene]
        past == PastDispatch(readers)
    IN  IF ~Binds(a.kw, params) THEN failed("TypeError")
        ELSE [raised |-> IF readers = <<>> THEN "AssertionError" ELSE "",
              args |-> a,
              readers |-> readers,
              wrote |-> past /\ first,
              cameras_json |->
                  IF past /\ first
                  THEN Some(JsonCams(CamList(
                           SceneInfoAtMetadataWrite(ds.train, train),
                           SceneInfoAtMetadataWrite(ds.test, test))))
                  ELSE files.cameras_json,
              populate |-> IF past THEN Populate(a.load_pts, loaded_iter) ELSE <<>>,
              materialized |-> IF past THEN Range(a.resolution_scales) ELSE {},
              scene |-> IF readers = <<>> THEN NoScene
                        ELSE [exists |-> TRUE,
                              loaded_iter |-> loaded_iter,
                              train_cameras |-> CamerasByScale(train, a.resolution_scales),
                              test_cameras |-> CamerasByScale(test, a.resolution_scales)]]

\* The files after the construction r.
FilesAfter(files, r) ==
    IF r.wrote
    THEN [files EXCEPT !.cameras_json = r.cameras_json, !.input_ply = TRUE]
    ELSE files

\* Scene(...) with every optional argument at its default.
DefaultArgs ==
    [load_iteration |-> None, shuffle |-> TRUE, resolution_scales |-> <<1>>,
     data_type |-> "OpenIllumination", load_pts |-> None, kw |-> {}]

NoCtor ==
    [raised |-> "", args |-> DefaultArgs, readers |-> <<>>, wrote |-> FALSE,
     cameras_json |-> None, populate |-> <<>>, materialized |-> {},
     scene |-> NoScene]

----------------------------------------------------------------------------
(* The Scene's other operations *)

NoLookup == [op |-> "", key |-> 0, raised |-> "", result |-> <<>>]

GetCameras_emptyOnMissing(op, cameras, scale) ==
    [op |-> op, key |-> scale, raised |-> "",
     result |-> IF scale \in DOMAIN cameras THEN cameras[scale] ELSE <<>>]

\* getTrainCameras / getTestCameras: a dict lookup, KeyError on a missing scale.
GetCameras(op, cameras, scale) ==
    IF scale \in DOMAIN cameras
    THEN [op |-> op, key |-> scale, raised |-> "", result |-> cameras[scale]]
    ELSE [op |-> op, key |-> scale, raised |-> "KeyError", result |-> <<>>]

----------------------------------------------------------------------------
(* training(): constants and helpers *)

\* `if iteration % 1000 == 0: gaussians.oneupSHdegree()`
SHInterval == 1000

\* `if iteration % 1000 == 0:` of the debug render
DebugInterval == 1000

\* What one iteration of the loop has done.
NoIteration ==
    [lr |-> None, sh |-> 0, refilled |-> FALSE, debug_render |-> 0,
     loss |-> "none", opt_step |-> 0, zero_grad |-> 0, report |-> 0,
     validation |-> 0, save |-> 0]

\* What the run has done.
NoHistory ==
    [executed |-> <<>>, lr_log |-> <<>>, sh_log |-> <<>>, sampled |-> <<>>,
     refills |-> <<>>, debug_log |-> <<>>, opt_log |-> <<>>, reported |-> <<>>,
     val_log |-> <<>>, save_log |-> <<>>, scenes |-> <<>>,
     diverged |-> None, fault |-> "", fault_at |-> "",
     renders |-> [train |-> <<>>, test |-> <<>>]]

TrainCamerasAfterPop_aliased(cameras, popped_stack) == popped_stack

\* The Scene's own train list after a pop from the stack: the stack is
\* `scene.getTrainCameras().copy()` (line 108), a list of its own, so
\* `viewpoint_stack.pop(...)` (line 109) leaves the Scene's list as it was.
TrainCamerasAfterPop(cameras, popped_stack) == cameras

NeedsRefill_always(stack) == TRUE

\* `if not viewpoint_stack:` (line 107): None before the first iteration, an
\* empty list after the last pop of a pass.
NeedsRefill(stack) == stack = <<>>

RemoveAt_keepsElement(s, k) == s

\* list.pop(k) leaves the list without its element at (one-based) index k.
RemoveAt(s, k) == [j \in 1..(Len(s) - 1) |-> IF j < k THEN s[j] ELSE s[j + 1]]

\* The iteration a checkpoint file holds (line 76); 0 without a checkpoint.
Resume(checkpoint) == IF checkpoint # None THEN checkpoint[1] ELSE 0

FirstIter_noIncrement(checkpoint, debug) == Resume(checkpoint)

\* first_iter when the loop is entered: 0, or the iteration stored in the
\* checkpoint (lines 68, 75-76), plus one unless debug is set (line 89).
FirstIter(checkpoint, debug) ==
    Resume(checkpoint) + (IF debug THEN 0 ELSE 1)

LoopEntered_bodyFirst(debug, first, T) == ~debug

\* Whether the loop body runs at all: the loop stands inside `if not debug:`
\* (line 86) and range(first_iter, opt.iterations + 1) (line 96) is empty
\* when first_iter is above the horizon.
LoopEntered(debug, first, T) == ~debug /\ first <= T

AfterLoss_continue(finite, i, T) == IF i < T THEN "loop" ELSE "finalize"

\* Where the loop goes after the loss of iteration i: `break` on a loss that
\* is inf or nan (lines 149-152), else the next value of range(first_iter, T + 1).
AfterLoss(finite, i, T) ==
    IF ~finite THEN "finalize" ELSE IF i < T THEN "loop" ELSE "finalize"

OptimizerSteps_always(i, T) == 1

\* `if iteration < opt.iterations: optimizer.step()` (lines 166-168).
OptimizerSteps(i, T) == IF i < T THEN 1 ELSE 0

StepsOnLoss_beforeCheck(finite, i, T) == OptimizerSteps(i, T)

\* Lines 149-168: the `break` on a loss that is inf or nan comes before the
\* optimizer step, so the step is reached only with a finite loss.
StepsOnLoss(finite, i, T) == IF finite THEN OptimizerSteps(i, T) ELSE 0

EscalatesAt_sinceStart(i, first) == (i - first + 1) % SHInterval = 0

\* `if iteration % 1000 == 0` of line 103; first is first_iter.
EscalatesAt(i, first) == i % SHInterval = 0

\* `if iteration % 1000 == 0` of line 131.
DebugRendersAt(i) == i % DebugInterval = 0

Member(x, s) == \E j \in 1..Len(s) : s[j] = x

ValidatesAt_always(i, testing_iterations) == TRUE

\* `if iteration in testing_iterations` of training_report.
ValidatesAt(i, testing_iterations) == Member(i, testing_iterations)

\* training_report's train sample: indices 5, 10, ..., 25 modulo the length.
TrainSample(cams) ==
    [j \in 1..5 |-> cams[((5 * j) % Len(cams)) + 1]]

Views(cams) == [j \in 1..Len(cams) |-> cams[j].view]

\* The validation block of one training_report call: the camera lists it
\* evaluates (a config with no cameras is skipped).
Validation(i, sc) ==
    [iteration |-> i,
     test |-> Views(sc.test_cameras[1]),
     train |-> Views(TrainSample(sc.train_cameras[1]))]

\* render_set: one output per view, numbered by enumerate.
RenderSet(views) == [j \in 1..Len(views) |-> [idx |-> j - 1, view |-> views[j].view]]

\* The iteration the for statement of line 96 binds next.
NextIteration == first_iter + Len(hist.executed)

----------------------------------------------------------------------------
(* The inputs the operations are explored with *)

Scales == {1, 2}

SceneArgs ==
    [load_iteration : {None, Some(-1), Some(0), Some(7)},
     shuffle : BOOLEAN,
     resolution_scales : {<<1>>, <<2>>, <<1, 2>>},
     data_type : {"OpenIllumination", "Custom"},
     load_pts : {None, Some("points.ply")},
     kw : {{}, {"extension"}}]

Datasets ==
    {[train |-> FromTo(1, n), test |-> FromTo(n + 1, n + m)] :
        n \in 0..MaxTrain, m \in 0..MaxTest}

Files ==
    [sparse : BOOLEAN, transforms : BOOLEAN,
     cameras_json : {None}, input_ply : {FALSE}, snapshots : {{}}]

\* training() has not been called.
DriverIdle ==
    /\ cfg = [T |-> 0, checkpoint |-> None, debug |-> FALSE, debug_path |-> None,
              testing_iterations |-> <<>>, saving_iterations |-> <<>>]
    /\ pc = "idle"
    /\ first_iter = 0
    /\ iteration = 0
    /\ viewpoint_stack = <<>>
    /\ viewpoint_cam = None
    /\ lossFinite = TRUE
    /\ it = NoIteration
    /\ hist = NoHistory
    /\ new_scene = NoScene

SceneInit ==
    /\ fs \in Files
    /\ dataset \in Datasets
    /\ scene_params = SceneParams
    /\ scene = NoScene
    /\ ctor = NoCtor
    /\ nCtor = 0
    /\ lookup = NoLookup
    /\ DriverIdle

\* s = Scene(args, gaussians, ...)
Construct ==
    /\ nCtor = 0
    /\ \E a \in SceneArgs, max_iteration \in {0, 30},
          shTrain \in Shuffles(dataset.train), shTest \in Shuffles(dataset.test) :
        LET r == Scene__init__(a, scene_params, fs, max_iteration, dataset,
                               shTrain, shTest)
        IN  /\ ctor' = r
            /\ nCtor' = 1
            /\ fs' = FilesAfter(fs, r)
            /\ scene' = IF r.raised = "" THEN r.scene ELSE scene
            /\ lookup' = NoLookup
            /\ UNCHANGED <<dataset, scene_params>>
            /\ UNCHANGED driverVars

GetTrainCameras ==
    /\ scene.exists
    /\ \E scale \in Scales :
        lookup' = GetCameras("getTrainCameras", scene.train_cameras, scale)
    /\ UNCHANGED <<fs, dataset, scene_params, scene, ctor, nCtor>>
    /\ UNCHANGED driverVars

GetTestCameras ==
    /\ scene.exists
    /\ \E scale \in Scales :
        lookup' = GetCameras("getTestCameras", scene.test_cameras, scale)
    /\ UNCHANGED <<fs, dataset, scene_params, scene, ctor, nCtor>>
    /\ UNCHANGED driverVars

\* Scene.save(iteration): the snapshot is written under iteration_<iteration>.
Save ==
    /\ scene.exists
    /\ \E i \in {7} :
        /\ fs' = [fs EXCEPT !.snapshots = @ \cup {i}]
        /\ lookup' = [op |-> "save", key |-> i, raised |-> "", result |-> <<>>]
    /\ UNCHANGED <<dataset, scene_params, scene, ctor, nCtor>>
    /\ UNCHANGED driverVars

SceneNext == Construct \/ GetTrainCameras \/ GetTestCameras \/ Save

SpecScene == SceneInit /\ [][SceneNext]_vars

----------------------------------------------------------------------------
(* training() *)

Checkpoints == {None, Some(997), Some(1000)}

\* Horizons are taken near the resume point, so that a run is a few
\* iterations long and still crosses a multiple of 1000.
HorizonOffsets == {-1, 0, 1, 3, MaxSteps}

ConfigOf(c, d, g, dp, ti) ==
    [T |-> Resume(c) + d,
     checkpoint |-> c,
     debug |-> g,
     debug_path |-> dp,
     testing_iterations |-> ti,
     saving_iterations |-> ti \o <<Resume(c) + d>>]

Configs ==
    {x \in {ConfigOf(c, d, g, dp, ti) :
                c \in Checkpoints, d \in HorizonOffsets, g \in BOOLEAN,
                dp \in {None, Some("debug")}, ti \in {<<>>, <<2, 1000, 1002>>}} :
        x.T >= 0}

DriverDatasets ==
    {[train |-> FromTo(1, n), test |-> FromTo(n + 1, n + m)] :
        n \in 0..MaxTrain, m \in 0..1}

\* training() passes extension= to Scene (lines 72, 174), a keyword the
\* Scene class of scene/__init__.py does not declare: with that class line 72
\* raises TypeError.  The driver is explored against that class and against
\* a Scene class that accepts the keyword.
DriverInit ==
    /\ fs \in {f \in Files : ~f.transforms}
    /\ dataset \in DriverDatasets
    /\ scene_params \in {SceneParams, SceneParams \cup {"extension"}}
    /\ scene = NoScene
    /\ ctor = NoCtor
    /\ nCtor = 0
    /\ lookup = NoLookup
    /\ cfg \in Configs
    /\ pc = "start"
    /\ first_iter = 0
    /\ iteration = 0
    /\ viewpoint_stack = <<>>
    /\ viewpoint_cam = None
    /\ lossFinite = TRUE
    /\ it = NoIteration
    /\ hist = NoHistory
    /\ new_scene = NoScene

Fault(err, where) == [hist EXCEPT !.fault = err, !.fault_at = where]

\* The run's log after the Scene construction r returned.
Constructs(h, r, where) ==
    [h EXCEPT !.scenes = Append(@, [at |-> where, shuffle |-> r.args.shuffle,
                                    wrote |-> r.wrote, populate |-> r.populate,
                                    train_cameras |-> r.scene.train_cameras])]

\* Lines 68-94: the first Scene, the optimizer setup, the optional restore.
Initializing ==
    /\ pc = "start"
    /\ \E shTrain \in Shuffles(dataset.train), shTest \in Shuffles(dataset.test) :
        LET r == Scene__init__([DefaultArgs EXCEPT !.kw = {"extension"}],
                               scene_params, fs, 0, dataset, shTrain, shTest)
            first == FirstIter(cfg.checkpoint, cfg.debug)
        IN  /\ ctor' = r
            /\ nCtor' = nCtor + 1
            /\ fs' = FilesAfter(fs, r)
            /\ IF r.raised # ""
               THEN /\ pc' = "fault"
                    /\ hist' = Fault(r.raised, "Initializing")
                    /\ UNCHANGED <<scene, first_iter>>
               ELSE /\ scene' = r.scene
                    /\ first_iter' = first
                    /\ pc' = IF LoopEntered(cfg.debug, first, cfg.T) THEN "loop" ELSE "finalize"
                    /\ hist' = Constructs(hist, r, "Initializing")
    /\ UNCHANGED <<dataset, scene_params, lookup, cfg, iteration, viewpoint_stack,
                   viewpoint_cam, lossFinite, it, new_scene>>

\* Lines 96-171: one iteration of the loop.
TrainingStep ==
    /\ pc = "loop"
    /\ LET i == NextIteration
           refill == NeedsRefill(viewpoint_stack)
           stack == IF refill THEN scene.train_cameras[1] ELSE viewpoint_stack
           sh == IF EscalatesAt(i, first_iter) THEN 1 ELSE 0
           head == [NoIteration EXCEPT !.lr = Some(i), !.sh = sh, !.refilled = refill]
           h0 == [hist EXCEPT
                    !.executed = Append(@, i),
                    !.lr_log = Append(@, i),
                    !.sh_log = IF sh = 1 THEN Append(@, i) ELSE @,
                    !.refills = IF refill
                                THEN Append(@, [step |-> Len(hist.executed) + 1,
                                                left |-> Len(viewpoint_stack),
                                                views |-> Views(stack)])
                                ELSE @]
       IN  /\ iteration' = i
           /\ IF stack = <<>>
              THEN \* randint(0, -1) raises ValueError
                   /\ pc' = "fault"
                   /\ hist' = [h0 EXCEPT !.fault = "ValueError", !.fault_at = "pop"]
                   /\ it' = head
                   /\ viewpoint_stack' = stack
                   /\ UNCHANGED <<viewpoint_cam, lossFinite, scene>>
              ELSE \E k \in 1..Len(stack) :
                   LET h1 == [h0 EXCEPT !.sampled = Append(@, stack[k].view)]
                   IN  /\ viewpoint_cam' = Some(stack[k])
                       /\ viewpoint_stack' = RemoveAt(stack, k)
                       /\ scene' = [scene EXCEPT !.train_cameras[1] =
                                       TrainCamerasAfterPop(@, RemoveAt(stack, k))]
                       /\ IF DebugRendersAt(i) /\ cfg.debug_path = None
                          THEN \* os.path.join(None, 'sh_map') raises TypeError
                               /\ pc' = "fault"
                               /\ hist' = [h1 EXCEPT !.fault = "TypeError",
                                                     !.fault_at = "debug render"]
                               /\ it' = head
                               /\ UNCHANGED lossFinite
                          ELSE \E finite \in BOOLEAN :
                               LET dbg == IF DebugRendersAt(i) THEN 1 ELSE 0
                                   h2 == [h1 EXCEPT !.debug_log =
                                            IF dbg = 1 THEN Append(@, i) ELSE @]
                                   step == StepsOnLoss(finite, i, cfg.T)
                                   val == IF ValidatesAt(i, cfg.testing_iterations)
                                          THEN 1 ELSE 0
                               IN  /\ lossFinite' = finite
                                   /\ pc' = AfterLoss(finite, i, cfg.T)
                                   /\ IF ~finite
                                      THEN \* break
                                           /\ it' = [head EXCEPT !.debug_render = dbg,
                                                                 !.loss = "nonfinite",
                                                                 !.opt_step = step,
                                                                 !.zero_grad = step]
                                           /\ hist' = [h2 EXCEPT
                                                      !.diverged = Some(i),
                                                      !.opt_log = IF step = 1
                                                                  THEN Append(@, i) ELSE @]
                                      ELSE /\ it' = [head EXCEPT
                                                      !.debug_render = dbg,
                                                      !.loss = "finite",
                                                      !.opt_step = step,
                                                      !.zero_grad = step,
                                                      !.report = 1,
                                                      !.validation = val]
                                           /\ hist' = [h2 EXCEPT
                                                      !.reported = Append(@, i),
                                                      !.opt_log = IF step = 1
                                                                  THEN Append(@, i) ELSE @,
                                                      !.val_log = IF val = 1
                                                                  THEN Append(@, Validation(i, scene))
                                                                  ELSE @]
    /\ UNCHANGED <<fs, dataset, scene_params, ctor, nCtor, lookup, cfg,
                   first_iter, new_scene>>

\* Lines 173-179: the second Scene and the two render_set calls.
Finalizing ==
    /\ pc = "finalize"
    /\ LET a == [DefaultArgs EXCEPT
                   !.shuffle = FALSE,
                   !.kw = IF cfg.debug THEN {"shuffle"} ELSE {"shuffle", "extension"}]
           r == Scene__init__(a, scene_params, fs, 0, dataset,
                              dataset.train, dataset.test)
       IN  /\ ctor' = r
           /\ nCtor' = nCtor + 1
           /\ fs' = FilesAfter(fs, r)
           /\ IF r.raised # ""
              THEN /\ pc' = "fault"
                   /\ hist' = Fault(r.raised, "Finalizing")
                   /\ UNCHANGED new_scene
              ELSE /\ new_scene' = r.scene
                   /\ IF cfg.debug
                      THEN \* pixels is bound only at line 94, inside `if not debug`
                           /\ pc' = "fault"
                           /\ hist' = Constructs(Fault("UnboundLocalError", "render_set"),
                                                 r, "Finalizing")
                      ELSE /\ pc' = "done"
                           /\ hist' = [Constructs(hist, r, "Finalizing") EXCEPT !.renders =
                                  [train |-> RenderSet(r.scene.train_cameras[1]),
                                   test |-> RenderSet(r.scene.test_cameras[1])]]
    /\ UNCHANGED <<dataset, scene_params, scene, lookup, cfg, first_iter, iteration,
                   viewpoint_stack, viewpoint_cam, lossFinite, it>>

Next == Initializing \/ TrainingStep \/ Finalizing

Spec == DriverInit /\ [][Next]_vars

\* training() is one sequential thread: a step that can be taken is taken.
FairSpec == Spec /\ WF_vars(Next)

----------------------------------------------------------------------------
(* Properties of training() *)

Mult1000(i) == i % 1000 = 0

Last(s) == s[Len(s)]

TrainSize == Len(dataset.train)

\* The views sampled in the N steps that start at step j of the run.
Window(j, N) == {hist.sampled[j + t] : t \in 0..(N - 1)}

\* C1: once the loss of iteration k is inf or nan, no iteration after k is
\* started, no fault is raised, and the run goes on to the second Scene and
\* the renders of the train and test sets.
C1_DivergenceEndsLoop ==
    hist.diverged # None =>
        /\ Last(hist.executed) = hist.diverged[1]
        /\ iteration = hist.diverged[1]
        /\ hist.fault = ""
        /\ pc \in {"finalize", "done"}
        /\ pc = "done" =>
              /\ nCtor = 2
              /\ new_scene.exists
              /\ Views(hist.renders.train) = dataset.train
              /\ Views(hist.renders.test) = dataset.test

C1_Witness ==
    /\ hist.diverged # None
    /\ Len(hist.executed) >= 2
    /\ Last(hist.executed) < cfg.T
    /\ pc = "done"

\* C2 as stated: any N consecutive steps, aligned with a refill or not,
\* sample every training view exactly once.
C2_AnyWindow ==
    TrainSize >= 1 =>
        \A j \in 1..(Len(hist.sampled) - TrainSize + 1) :
            Window(j, TrainSize) = Range(dataset.train)

\* C2 amended: the N consecutive steps that start at a refill of the
\* view-sampling stack sample every training view exactly once.
C2_WindowFromRefill ==
    \A r \in 1..Len(hist.refills) :
        LET j == hist.refills[r].step
        IN  (TrainSize >= 1 /\ j + TrainSize - 1 <= Len(hist.sampled)) =>
                Window(j, TrainSize) = Range(dataset.train)

C2_Witness ==
    /\ TrainSize = 2
    /\ Len(hist.refills) = 2
    /\ Len(hist.sampled) = 4
    /\ hist.sampled[2] = hist.sampled[3]

\* C3: a degree increase is requested at iteration i iff i is an executed
\* iteration that is a multiple of 1000, once at each.
C3_EscalationAtMultiplesOf1000 ==
    /\ hist.sh_log = SelectSeq(hist.executed, Mult1000)
    /\ it.sh = IF hist.executed # <<>> /\ Mult1000(iteration) THEN 1 ELSE 0

C3_Witness ==
    /\ hist.sh_log = <<1000>>
    /\ Len(hist.executed) >= 3
    /\ ~Mult1000(iteration)

\* C4: a run resumed from a checkpoint of iteration n starts at n + 1 (an
\* uninterrupted run at 1), and at every iteration i either run advances the
\* learning-rate schedule with i and requests an escalation iff i is a
\* multiple of 1000.
C4_ResumeKeepsSchedule ==
    LET n == IF cfg.checkpoint # None THEN cfg.checkpoint[1] ELSE 0
    IN  /\ hist.executed = FromTo(n + 1, n + Len(hist.executed))
        /\ hist.lr_log = hist.executed
        /\ hist.sh_log = SelectSeq(hist.executed, Mult1000)
        /\ hist.executed # <<>> => it.lr = Some(iteration)

C4_Witness ==
    /\ cfg.checkpoint = Some(997)
    /\ hist.executed = <<998, 999, 1000, 1001>>
    /\ hist.sh_log = <<1000>>

\* C5: every iteration of saving_iterations that the loop executes without
\* divergence calls scene.save for that iteration.
C5_SavesAtSavingIterations ==
    \A j \in 1..Len(hist.reported) :
        Member(hist.reported[j], cfg.saving_iterations) =>
            Member(hist.reported[j], hist.save_log)

InTesting(i) == Member(i, cfg.testing_iterations)

\* C6: the validation block runs at an iteration executed without divergence
\* iff the iteration is in testing_iterations, at most once, over the whole
\* test set and the train subsample.
C6_ValidationAtTestingIterations ==
    LET expected == SelectSeq(hist.reported, InTesting)
    IN  /\ Len(hist.val_log) = Len(expected)
        /\ \A j \in 1..Len(hist.val_log) :
              /\ hist.val_log[j].iteration = expected[j]
              /\ hist.val_log[j].test = Views(scene.test_cameras[1])
              /\ Len(hist.val_log[j].train) = 5
              /\ Range(hist.val_log[j].train) \subseteq Range(dataset.train)
        /\ it.validation <= 1
        /\ it.loss # "finite" => it.validation = 0

C6_Witness ==
    /\ Len(hist.val_log) = 1
    /\ hist.reported = <<1, 2, 3>>
    /\ dataset.test # <<>>

----------------------------------------------------------------------------
(* Properties of Scene.__init__ *)

Constructed == nCtor > 0 /\ ctor.raised = ""

\* C7: a construction that does not fail invokes exactly one reader: Colmap
\* if the sparse directory exists, else Blender if the transforms manifest
\* exists, else OpenIllumination if that data type is requested.
C7_OneReaderByPriority ==
    Constructed =>
        ctor.readers =
            IF fs.sparse THEN <<"Colmap">>
            ELSE IF fs.transforms THEN <<"Blender">>
            ELSE IF ctor.args.data_type = "OpenIllumination"
                 THEN <<"OpenIllumination">>
                 ELSE <<"no reader">>

C7_Witness ==
    /\ Constructed
    /\ fs.sparse /\ fs.transforms
    /\ ctor.args.data_type = "OpenIllumination"
    /\ ctor.readers = <<"Colmap">>

NoMarker == ~fs.sparse /\ ~fs.transforms

\* C8 as stated: with no marker under the source path and the other
\* arguments at their defaults the construction fails with the
\* unrecognized-scene-type error and invokes no reader.
C8_NoMarkerDefaultsFail ==
    (nCtor > 0 /\ NoMarker /\ ctor.args = DefaultArgs) =>
        (ctor.raised = "AssertionError" /\ ctor.readers = <<>>)

\* C8 amended: with no marker under the source path and a data_type other
\* than OpenIllumination the construction fails with the
\* unrecognized-scene-type error and invokes no reader.
C8_NoMarkerOtherTypeFails ==
    (nCtor > 0 /\ NoMarker /\ ctor.args.kw = {}
        /\ ctor.args.data_type # "OpenIllumination") =>
        (ctor.raised = "AssertionError" /\ ctor.readers = <<>> /\ ~scene.exists)

C8_Witness ==
    /\ nCtor > 0 /\ NoMarker /\ ctor.args.kw = {}
    /\ ctor.args.data_type = "Custom"
    /\ ctor.raised = "AssertionError"

\* C9: a construction with no checkpoint iteration writes cameras.json from
\* the reader's order, shuffled or not: id j is the j-th view of the train
\* sequence followed by the test sequence.
C9_MetadataIdsInReaderOrder ==
    (Constructed /\ ctor.args.load_iteration = None) =>
        /\ ctor.wrote
        /\ fs.cameras_json # None
        /\ LET json == fs.cameras_json[1]
               all == dataset.train \o dataset.test
           IN  /\ Len(json) = Len(all)
               /\ \A j \in 1..Len(json) :
                     json[j].id = j - 1 /\ json[j].view = all[j]

C9_Witness ==
    /\ Constructed /\ ctor.args.load_iteration = None
    /\ ctor.args.shuffle
    /\ 1 \in DOMAIN scene.train_cameras
    /\ Len(dataset.train) >= 2 /\ Len(dataset.test) >= 2
    /\ Views(scene.train_cameras[1]) # dataset.train
    /\ Views(scene.test_cameras[1]) # dataset.test

SameViews(cameras) ==
    \A A \in DOMAIN cameras, B \in DOMAIN cameras :
        /\ Len(cameras[A]) = Len(cameras[B])
        /\ \A i \in 1..Len(cameras[A]) : cameras[A][i].view = cameras[B][i].view

\* C10: the train sequences of any two scales of one construction have the
\* same length and the same raw view at every index; so do the test sequences.
C10_ScalesShareOrder ==
    Constructed =>
        /\ DOMAIN scene.train_cameras = Range(ctor.args.resolution_scales)
        /\ DOMAIN scene.test_cameras = Range(ctor.args.resolution_scales)
        /\ SameViews(scene.train_cameras)
        /\ SameViews(scene.test_cameras)
        /\ \A s \in DOMAIN scene.train_cameras :
              /\ Len(scene.train_cameras[s]) = Len(dataset.train)
              /\ Len(scene.test_cameras[s]) = Len(dataset.test)

C10_Witness ==
    /\ Constructed
    /\ ctor.args.shuffle
    /\ ctor.args.resolution_scales = <<1, 2>>
    /\ Len(dataset.train) >= 2 /\ Len(dataset.test) >= 2
    /\ Views(scene.train_cameras[2]) # dataset.train
    /\ Views(scene.test_cameras[2]) # dataset.test

IsGet == lookup.op \in {"getTrainCameras", "getTestCameras"}

Stored == IF lookup.op = "getTrainCameras" THEN scene.train_cameras
          ELSE scene.test_cameras

\* C12: retrieving the train or test cameras of a scale that was not
\* materialized raises a lookup error and leaves the Scene as constructed;
\* retrieving a materialized scale returns the sequence stored for it.
C12_LookupByScale ==
    IsGet =>
        /\ scene = ctor.scene
        /\ DOMAIN scene.train_cameras = Range(ctor.args.resolution_scales)
        /\ DOMAIN scene.test_cameras = Range(ctor.args.resolution_scales)
        /\ IF lookup.key \in Range(ctor.args.resolution_scales)
           THEN lookup.raised = "" /\ lookup.result = Stored[lookup.key]
           ELSE lookup.raised = "KeyError" /\ lookup.result = <<>>

C12_Witness ==
    /\ lookup.op = "getTrainCameras"
    /\ lookup.key = 1
    /\ ctor.args.resolution_scales = <<2>>
    /\ Len(dataset.train) >= 1
    /\ lookup.raised = "KeyError"

\* C13 (as stated): every iteration from the start to the horizon T inclusive
\* whose loss is finite applies exactly one optimizer step and clears the
\* gradients.
C13_StepAtEveryFiniteIteration ==
    /\ hist.opt_log = hist.reported
    /\ (it.loss = "finite" => it.opt_step = 1 /\ it.zero_grad = 1)

\* C13 (amended): every iteration below the horizon T whose loss is finite
\* applies exactly one optimizer step and then clears the gradients; the
\* iteration equal to T applies none.
C13_StepBelowHorizon ==
    /\ hist.opt_log = SelectSeq(hist.reported, LAMBDA i : i < cfg.T)
    /\ it.zero_grad = it.opt_step
    /\ it.loss = "finite" =>
          it.opt_step = IF iteration < cfg.T THEN 1 ELSE 0

C13_Witness ==
    /\ pc = "finalize"
    /\ it.loss = "finite"
    /\ iteration = cfg.T
    /\ it.opt_step = 0
    /\ Len(hist.reported) = 3
    /\ Len(hist.opt_log) = 2

\* C14: when the loss of iteration k is infinite or not-a-number, no optimizer
\* step is applied at k or afterwards: the steps applied by the time of
\* Finalizing are those of the iterations before k.
C14_NoStepFromDivergence ==
    hist.diverged # None =>
        /\ \A j \in 1..Len(hist.opt_log) : hist.opt_log[j] < hist.diverged[1]
        /\ hist.opt_log = SubSeq(hist.executed, 1, Len(hist.executed) - 1)
        /\ Last(hist.executed) = hist.diverged[1]
        /\ it.opt_step = 0 /\ it.zero_grad = 0

C14_Witness ==
    /\ pc = "done"
    /\ hist.diverged # None
    /\ Len(hist.executed) = 3
    /\ hist.diverged[1] < cfg.T
    /\ Len(hist.opt_log) = 2

PassStart(r) == hist.refills[r].step

PassEnd(r) ==
    IF r < Len(hist.refills) THEN hist.refills[r + 1].step - 1
    ELSE Len(hist.sampled)

\* The views popped in pass r: from refill r to the next refill, or to now.
PassViews(r) == SubSeq(hist.sampled, PassStart(r), PassEnd(r))

NoRepeat(s) == \A a, b \in 1..Len(s) : a # b => s[a] # s[b]

\* C15: within a pass of the view-sampling stack no camera is popped twice,
\* a pass that has ended popped every training camera exactly once, the
\* cameras popped so far and the cameras left on the stack make up the
\* training set, and a refill happens only on an empty stack.
C15_OncePerPass ==
    TrainSize >= 1 =>
        /\ \A r \in 1..Len(hist.refills) :
              /\ hist.refills[r].left = 0
              /\ Len(hist.refills[r].views) = TrainSize
              /\ NoRepeat(PassViews(r))
              /\ Range(PassViews(r)) \subseteq Range(dataset.train)
              /\ r < Len(hist.refills) =>
                    /\ Range(PassViews(r)) = Range(dataset.train)
                    /\ Len(PassViews(r)) = TrainSize
        /\ hist.refills # <<>> =>
              LET popped == PassViews(Len(hist.refills))
              IN  /\ Len(popped) + Len(viewpoint_stack) = TrainSize
                  /\ Range(popped) \cap Range(Views(viewpoint_stack)) = {}
                  /\ Range(popped) \cup Range(Views(viewpoint_stack))
                        = Range(dataset.train)

C15_Witness ==
    /\ TrainSize = 2
    /\ Len(hist.refills) = 2
    /\ Len(hist.sampled) = 4
    /\ hist.sampled[2] = hist.sampled[3]
    /\ viewpoint_stack = <<>>

\* C16 (as stated): in every run, the debug run included, once the second,
\* un-shuffled Scene is constructed each of its train cameras and then each
\* of its test cameras is rendered exactly once, in the Scene's order,
\* numbered from 0 within each split.
C16_FinalizingRendersAll ==
    new_scene.exists =>
        /\ pc = "done"
        /\ hist.fault = ""
        /\ ~ctor.args.shuffle
        /\ Views(new_scene.train_cameras[1]) = dataset.train
        /\ Views(new_scene.test_cameras[1]) = dataset.test
        /\ hist.renders.train =
              [j \in 1..Len(dataset.train) |-> [idx |-> j - 1, view |-> dataset.train[j]]]
        /\ hist.renders.test =
              [j \in 1..Len(dataset.test) |-> [idx |-> j - 1, view |-> dataset.test[j]]]

Finalized == pc = "done" \/ hist.fault_at = "render_set"

\* C17 (as stated): a run constructs the Scene exactly once, so the copy of
\* the point cloud, the write of the camera metadata and the population of
\* the radiance model each happen exactly once.
C17_SceneConstructedOnce ==
    /\ Len(hist.scenes) <= 1
    /\ nCtor <= 1
    /\ Finalized => Len(hist.scenes) = 1

\* C17 (amended): a run that gets through Finalizing constructs the Scene
\* twice, shuffled in Initializing and un-shuffled in Finalizing; each
\* construction copies the point cloud, writes the camera metadata and
\* populates the radiance model from the reader's point cloud exactly once,
\* and the second write leaves the same metadata as the first.
C17_SceneConstructedTwice ==
    /\ Len(hist.scenes) <= 2
    /\ nCtor = Len(hist.scenes) + (IF ctor.raised # "" THEN 1 ELSE 0)
    /\ pc \in {"loop", "finalize"} => Len(hist.scenes) = 1
    /\ Finalized => Len(hist.scenes) = 2
    /\ \A j \in 1..Len(hist.scenes) :
          /\ hist.scenes[j].at = IF j = 1 THEN "Initializing" ELSE "Finalizing"
          /\ hist.scenes[j].shuffle = (j = 1)
          /\ hist.scenes[j].wrote
          /\ hist.scenes[j].populate = <<"create_from_pcd(scene_info)">>
    /\ hist.scenes # <<>> =>
          /\ fs.input_ply
          /\ fs.cameras_json = Some(JsonCams(CamList(dataset.train, dataset.test)))

C17_Witness ==
    /\ pc = "done"
    /\ Len(hist.scenes) = 2
    /\ Len(hist.executed) >= 2
    /\ TrainSize = 2
    /\ hist.scenes[2].wrote

\* C18 (as stated): the debug render runs at the iterations that are
\* multiples of 1000 and never affects control flow: with or without a debug
\* directory the iteration goes on to the loss, the divergence check and the
\* optimizer step.
C18_DebugRenderNeverStopsIteration ==
    /\ \A j \in 1..Len(hist.debug_log) : Mult1000(hist.debug_log[j])
    /\ (hist.executed # <<>> /\ Mult1000(iteration) /\ hist.fault_at # "pop") =>
          /\ hist.fault_at # "debug render"
          /\ it.loss # "none"
          /\ it.debug_render = 1
          /\ it.loss = "finite" => it.opt_step = OptimizerSteps(iteration, cfg.T)

\* C19: popping from the view-sampling stack never changes the Scene's own
\* train cameras: after any number of steps the Scene's sequence for the
\* default scale is the one it was constructed with, and every refill puts
\* all N training cameras on the stack.
C19_PopLeavesSceneCameras ==
    hist.scenes # <<>> =>
        /\ scene.train_cameras = hist.scenes[1].train_cameras
        /\ Len(scene.train_cameras[1]) = TrainSize
        /\ Range(Views(scene.train_cameras[1])) = Range(dataset.train)
        /\ \A r \in 1..Len(hist.refills) :
              hist.refills[r].views = Views(scene.train_cameras[1])

C19_Witness ==
    /\ TrainSize = 2
    /\ Len(hist.sampled) = 3
    /\ Len(hist.refills) = 2
    /\ Len(viewpoint_stack) = 1
    /\ Views(scene.train_cameras[1]) # dataset.train
    /\ Len(scene.train_cameras[1]) = 2

ResumePoint == Resume(cfg.checkpoint)

\* The counter of the loop: resume point + 1, + 2, ... and never above T.
CounterInRange ==
    LET n == Len(hist.executed)
    IN  /\ hist.executed = [j \in 1..n |-> ResumePoint + j]
        /\ \A j \in 1..n : hist.executed[j] <= cfg.T
        /\ n <= IF cfg.T > ResumePoint THEN cfg.T - ResumePoint ELSE 0
        /\ n >= 1 => iteration = ResumePoint + n
        /\ pc = "loop" => NextIteration <= cfg.T
        /\ ResumePoint >= cfg.T => n = 0 /\ pc # "loop"
        /\ (ResumePoint >= cfg.T /\ hist.scenes # <<>>) =>
              pc = "finalize" \/ Len(hist.scenes) = 2

\* C20: the training loop always terminates: the counter starts at the
\* resume point + 1, grows by exactly 1 per step and never exceeds T, at most
\* T - resume point steps run, none runs when the resume point is at or
\* beyond T (the run goes straight to Finalizing), and every run leaves the
\* loop for good.
C20_LoopTerminates ==
    /\ []CounterInRange
    /\ <>[](pc \in {"done", "fault"})

C20_Witness ==
    /\ pc = "done"
    /\ cfg.checkpoint # None
    /\ Len(hist.executed) = cfg.T - ResumePoint
    /\ Len(hist.executed) = MaxSteps
    /\ hist.diverged = None

\* C21: a construction that fails with the unrecognized-scene-type error has
\* had no persistent or model side effect: no input.ply copy and no
\* cameras.json were written, no camera was materialized for any scale, the
\* radiance model was neither created nor loaded, and no Scene is returned.
C21_FailsBeforeSideEffects ==
    (nCtor > 0 /\ ctor.raised = "AssertionError") =>
        /\ ctor.readers = <<>>
        /\ ~ctor.wrote
        /\ ~fs.input_ply
        /\ fs.cameras_json = None
        /\ fs.snapshots = {}
        /\ ctor.materialized = {}
        /\ ctor.populate = <<>>
        /\ scene = NoScene

C21_Witness ==
    /\ nCtor = 1
    /\ ctor.raised = "AssertionError"
    /\ ctor.args.load_pts # None
    /\ ctor.args.load_iteration = None
    /\ ctor.args.resolution_scales = <<1, 2>>
    /\ Len(dataset.train) >= 1
    /\ Len(dataset.test) >= 1

====
